---------------------------- MODULE Spec2Model ----------------------------
(***************************************************************************)
(* Model of the macro dashboard script src/app.py: the batch fetch and     *)
(* normalisation get_data, the top-level try/except around it, the key     *)
(* metrics row and the two chart panels.                                   *)
(*                                                                         *)
(* Floating-point values are modelled as tagged exact rationals: a finite  *)
(* number n/d in lowest terms, or one of the IEEE specials nan, inf, -inf  *)
(* that pandas produces on a division by zero.  A cell that float() cannot *)
(* coerce and arithmetic cannot use (None, a string) has the tag "obj".    *)
(***************************************************************************)
EXTENDS Integers, Sequences, FiniteSets, TLC

(***************************************************************************)
(* Bounds of the model.                                                    *)
(***************************************************************************)
\* number of catalog entries (a prefix of the six tickers of the source)
NInstr == 3
\* longest price history enumerated for the normalisation specification
MaxRows == 3

(***************************************************************************)
(* Floating-point cells.                                                   *)
(***************************************************************************)
Abs(x) == IF x < 0 THEN -x ELSE x

RECURSIVE GCD(_, _)
GCD(a, b) == IF b = 0 THEN a ELSE GCD(b, a % b)

Num(n, d) ==
    IF n = 0 THEN [tag |-> "num", n |-> 0, d |-> 1]
    ELSE LET g == GCD(Abs(n), Abs(d))
             s == IF d < 0 THEN -1 ELSE 1
         IN  [tag |-> "num", n |-> (s * n) \div g, d |-> (s * d) \div g]

NaN == [tag |-> "nan", n |-> 0, d |-> 1]
PosInf == [tag |-> "inf", n |-> 0, d |-> 1]
NegInf == [tag |-> "-inf", n |-> 0, d |-> 1]
\* a value that is not a number: float(x) raises, x - 1.0 raises
Obj == [tag |-> "obj", n |-> 0, d |-> 1]

IsFinite(x) == x.tag = "num"

Sign(x) ==
    CASE x.tag = "inf" -> 1
      [] x.tag = "-inf" -> -1
      [] x.tag = "num" -> (IF x.n > 0 THEN 1 ELSE IF x.n < 0 THEN -1 ELSE 0)
      [] OTHER -> 0

\* a - b on floats
FSub(a, b) ==
    IF a.tag = "num" /\ b.tag = "num" THEN Num(a.n * b.d - b.n * a.d, a.d * b.d)
    ELSE IF a.tag = "nan" \/ b.tag = "nan" THEN NaN
    ELSE IF a.tag = b.tag THEN NaN
    ELSE IF a.tag = "num" THEN (IF b.tag = "inf" THEN NegInf ELSE PosInf)
    ELSE a

\* a / b on a float column: a division by zero gives inf, -inf or nan, it
\* does not raise
FDiv(a, b) ==
    IF a.tag = "nan" \/ b.tag = "nan" THEN NaN
    ELSE IF b.tag = "num" /\ b.n = 0
         THEN (IF Sign(a) > 0 THEN PosInf ELSE IF Sign(a) < 0 THEN NegInf ELSE NaN)
    ELSE IF a.tag = "num" /\ b.tag = "num" THEN Num(a.n * b.d, a.d * b.n)
    ELSE IF a.tag = "num" THEN Num(0, 1)
    ELSE IF b.tag = "num" THEN (IF Sign(a) * Sign(b) > 0 THEN PosInf ELSE NegInf)
    ELSE NaN

\* a * b on floats
FMul(a, b) ==
    IF a.tag = "nan" \/ b.tag = "nan" THEN NaN
    ELSE IF a.tag = "num" /\ b.tag = "num" THEN Num(a.n * b.n, a.d * b.d)
    ELSE IF Sign(a) * Sign(b) = 0 THEN NaN
    ELSE IF Sign(a) * Sign(b) > 0 THEN PosInf ELSE NegInf

\* float(x): defined for every float, raises for anything else
CanFloat(x) == x.tag # "obj"

\* f"{x:.2f}" of a whole number, kept as the number of hundredths shown
Fmt2(x) == (100 * x.n) \div x.d

\* Series.iloc[k] with Python's indexing: k >= 0 from the front, k < 0 from
\* the back; out of range raises IndexError
ILocInRange(s, k) == IF k >= 0 THEN k < Len(s) ELSE -k <= Len(s)
ILoc(s, k) == IF k >= 0 THEN s[k + 1] ELSE s[Len(s) + k + 1]


(***************************************************************************)
(* The catalog and the provider.                                           *)
(***************************************************************************)
AllTickers ==
    << [name |-> "S&P 500 (Growth Proxy)", symbol |-> "^GSPC"],
       [name |-> "10-Year Treasury Yield (Rates)", symbol |-> "^TNX"],
       [name |-> "USD Index (Currency)", symbol |-> "DX-Y.NYB"],
       [name |-> "Gold (Inflation/Hedge)", symbol |-> "GC=F"],
       [name |-> "Crude Oil (Energy Costs)", symbol |-> "CL=F"],
       [name |-> "VIX (Volatility/Fear)", symbol |-> "^VIX"] >>

Min(a, b) == IF a < b THEN a ELSE b
Entries == {AllTickers[j] : j \in 1..Min(NInstr, Len(AllTickers))}
Names == {e.name : e \in Entries}
Symbols == {e.symbol : e \in Entries}
N == Cardinality(Entries)

\* the orders in which the dict literal may list the catalog
Orders == {o \in [1..N -> Entries] : \A a, b \in 1..N : a # b => o[a] # o[b]}

F(k) == Num(k, 1)

\* daily closes a provider may hold for one symbol
Histories ==
    { <<>>,
      <<F(100)>>,
      <<F(100), F(110)>>,
      <<F(100), F(110), F(90)>>,
      <<F(0), F(5), F(10)>>,
      <<Obj, F(100)>>,
      <<F(100), Obj>> }

\* what the provider answers for one symbol: an outright failure of the
\* call, or a (possibly empty) price history
Responses ==
    {[ok |-> FALSE, close |-> <<>>]} \cup {[ok |-> TRUE, close |-> h] : h \in Histories}

\* the installed yfinance: "new" accepts multi_level_index and returns flat
\* columns; an old one raises TypeError on the keyword and returns, without
\* it, flat or two-level (Price, Ticker) columns
Versions == {"new", "old_flat", "old_multi"}

(***************************************************************************)
(* Data frames: column labels (a label is the tuple of its levels) and one *)
(* sequence of cells per column.                                           *)
(***************************************************************************)
Frame(cols, vals) == [columns |-> cols, values |-> vals]
NoFrame == Frame(<<>>, <<>>)

NRows(df) == IF Len(df.values) = 0 THEN 0 ELSE Len(df.values[1])

\* mutant of DfEmpty: only the columns are looked at, so a frame with
\* columns and no rows counts as data
DfEmptyColumnsOnly(df) == Len(df.columns) = 0

\* df.empty: some axis has length 0
DfEmpty(df) == Len(df.columns) = 0 \/ NRows(df) = 0

\* isinstance(df.columns, pd.MultiIndex)
IsMultiIndex(df) == Len(df.columns) > 0 /\ Len(df.columns[1]) > 1

\* mutant of DropLevel: droplevel(0) keeps the ticker level
DropLevelZero(label) == <<label[2]>>

\* the label left of a two-level label by droplevel(1)
DropLevel(label) == <<label[1]>>

\* lines 41-42
Flatten(df) ==
    IF IsMultiIndex(df)
    THEN Frame([c \in 1..Len(df.columns) |-> DropLevel(df.columns[c])], df.values)
    ELSE df

HasColumn(df, key) == \E c \in 1..Len(df.columns) : df.columns[c] = <<key>>

\* df[key]
GetColumn(df, key) ==
    df.values[CHOOSE c \in 1..Len(df.columns) : df.columns[c] = <<key>>]

\* df[key] = series, on a frame without that column
AddColumn(df, key, series) ==
    Frame(Append(df.columns, <<key>>), Append(df.values, series))

\* the table yf.download builds from a price history
ProviderFrame(symbol, close, multi) ==
    Frame(IF multi THEN << <<"Close", symbol>>, <<"Volume", symbol>> >>
                   ELSE << <<"Close">>, <<"Volume">> >>,
          << close, [r \in 1..Len(close) |-> F(1)] >>)

Raised(e) == [exc |-> e, df |-> NoFrame]
Returned(df) == [exc |-> "none", df |-> df]

\* line 35: yf.download(..., auto_adjust=False, multi_level_index=False)
DownloadPrimary(symbol, resp, yf) ==
    IF yf # "new" THEN Raised("TypeError")
    ELSE IF ~resp.ok THEN Raised("Error")
    ELSE Returned(ProviderFrame(symbol, resp.close, FALSE))

\* line 38: yf.download(symbol, start=start, progress=False)
DownloadFallback(symbol, resp, yf) ==
    IF ~resp.ok THEN Raised("Error")
    ELSE Returned(ProviderFrame(symbol, resp.close, yf = "old_multi"))

\* lines 34-38
Download(symbol, resp, yf) ==
    LET first == DownloadPrimary(symbol, resp, yf)
    IN  IF first.exc = "TypeError" THEN DownloadFallback(symbol, resp, yf) ELSE first

\* mutant of FirstClose: the baseline taken from the last row
LastClose(close) == ILoc(close, -1)

\* line 46: the baseline is the first close
FirstClose(close) == ILoc(close, 0)

\* line 47
PctChange(close, first_close) ==
    [r \in 1..Len(close) |-> FMul(FDiv(FSub(close[r], first_close), first_close), F(100))]

\* lines 44-48 on a flattened frame: "raise", "skip", or "store" with the
\* frame that goes into data[name]
Normalize(df) ==
    IF DfEmpty(df) THEN [kind |-> "skip", df |-> NoFrame]
    ELSE IF ~HasColumn(df, "Close") THEN [kind |-> "raise", df |-> NoFrame]
    ELSE LET close == GetColumn(df, "Close")
         IN  IF ~ILocInRange(close, 0) \/ ~CanFloat(FirstClose(close))
             THEN [kind |-> "raise", df |-> NoFrame]
             ELSE IF \E r \in 1..Len(close) : close[r].tag = "obj"
             THEN [kind |-> "raise", df |-> NoFrame]
             ELSE [kind |-> "store",
                   df |-> AddColumn(df, "Pct_Change", PctChange(close, FirstClose(close)))]

\* lines 33-48: one iteration of the loop of get_data
LoopBody(symbol, resp, yf) ==
    LET dl == Download(symbol, resp, yf)
    IN  IF dl.exc # "none" THEN [kind |-> "raise", df |-> NoFrame]
        ELSE Normalize(Flatten(dl.df))

\* mutant of DictSet: one frame object shared by all the entries, so every
\* key ends up holding the frame written last
DictSetAliased(d, name, df) ==
    Append([j \in 1..Len(d) |-> [name |-> d[j].name, df |-> df]],
           [name |-> name, df |-> df])

\* data[name] = df on the insertion-ordered dict data
DictSet(d, name, df) ==
    IF \E j \in 1..Len(d) : d[j].name = name
    THEN [j \in 1..Len(d) |-> IF d[j].name = name THEN [name |-> name, df |-> df] ELSE d[j]]
    ELSE Append(d, [name |-> name, df |-> df])

\* name in d, d[name]
DictHas(d, name) == \E j \in 1..Len(d) : d[j].name = name
DictGet(d, name) == d[CHOOSE j \in 1..Len(d) : d[j].name = name].df

(***************************************************************************)
(* State.                                                                  *)
(***************************************************************************)
VARIABLES
    tickers,      \* the catalog, in the order the dict lists it
    provider,     \* symbol -> what the provider answers for it
    yf,           \* the installed yfinance version
    pc,           \* position of the script
    k,            \* iterations of the loop of get_data completed
    data,         \* the dict get_data builds, in insertion order
    macro_data,   \* the batch result, once get_data has returned
    slots,        \* what each of the len(tickers) metric columns shows
    traces,       \* the traces of the comparison chart
    yield_panel,  \* what the yield panel shows
    rendered,     \* the page elements emitted so far, in order
    raw,          \* normalisation specification: the price history
    verA, verB,   \* ... the two yfinance versions it is fetched with
    outA, outB,   \* ... the two results of the loop body
    applied       \* ... whether the loop body has run

vars == << tickers, provider, yf, pc, k, data, macro_data, slots, traces,
           yield_panel, rendered, raw, verA, verB, outA, outB, applied >>
normVars == << raw, verA, verB, outA, outB, applied >>
scriptVars == << tickers, provider, yf, pc, k, data, macro_data, slots, traces,
                 yield_panel, rendered >>

Blank == [kind |-> "blank", label |-> "", value |-> 0, delta |-> 0]
NA == [kind |-> "N/A", label |-> "", value |-> 0, delta |-> 0]
Metric(name, value, delta) ==
    [kind |-> "metric", label |-> name, value |-> value, delta |-> delta]

NoPanel == [kind |-> "none", y |-> <<>>]
NoOutcome == [kind |-> "none", df |-> NoFrame]

YieldName == "10-Year Treasury Yield (Rates)"
DefaultSelection == <<"S&P 500 (Growth Proxy)", YieldName>>

\* list(tickers.keys())
Keys(t) == [j \in 1..Len(t) |-> t[j].name]

\* what the user may have picked in the multiselect
Selections(t) == {<<>>, DefaultSelection, Keys(t)}

Init ==
    /\ tickers \in Orders
    /\ provider \in [Symbols -> Responses]
    /\ yf \in Versions
    /\ pc = "get_data"
    /\ k = 0
    /\ data = <<>>
    /\ macro_data = <<>>
    /\ slots = [p \in 1..N |-> Blank]
    /\ traces = <<>>
    /\ yield_panel = NoPanel
    /\ rendered = <<"title">>
    /\ raw = <<>> /\ verA = "new" /\ verB = "new"
    /\ outA = NoOutcome /\ outB = NoOutcome /\ applied = FALSE

(***************************************************************************)
(* get_data and the try/except around it (lines 29-56).                    *)
(***************************************************************************)
\* one iteration of "for name, symbol in ticker_dict.items()"
GetDataIter ==
    /\ pc = "get_data"
    /\ k < Len(tickers)
    /\ LET t == tickers[k + 1]
           r == LoopBody(t.symbol, provider[t.symbol], yf)
       IN  \/ /\ r.kind = "raise"
              /\ pc' = "raised"
              /\ UNCHANGED << k, data >>
           \/ /\ r.kind = "skip"
              /\ k' = k + 1
              /\ UNCHANGED << pc, data >>
           \/ /\ r.kind = "store"
              /\ data' = DictSet(data, t.name, r.df)
              /\ k' = k + 1
              /\ UNCHANGED pc
    /\ UNCHANGED << tickers, provider, yf, macro_data, slots, traces, yield_panel,
                    rendered >>
    /\ UNCHANGED normVars

\* "return data" and the assignment to macro_data
GetDataReturn ==
    /\ pc = "get_data"
    /\ k = Len(tickers)
    /\ macro_data' = data
    /\ pc' = "fetched"
    /\ UNCHANGED << tickers, provider, yf, k, data, slots, traces, yield_panel,
                    rendered >>
    /\ UNCHANGED normVars

\* lines 54-56: st.error(...) and st.stop()
FetchFailed ==
    /\ pc = "raised"
    /\ rendered' = Append(rendered, "error")
    /\ pc' = "stopped"
    /\ UNCHANGED << tickers, provider, yf, k, data, macro_data, slots, traces,
                    yield_panel >>
    /\ UNCHANGED normVars

(***************************************************************************)
(* The page below the fetch (lines 58-145).                                *)
(***************************************************************************)
\* lines 63-76 for one item of macro_data
MetricSlot(name, df) ==
    IF DfEmpty(df) THEN Blank
    ELSE LET close == GetColumn(df, "Close")
         IN  IF /\ ILocInRange(close, -1) /\ CanFloat(ILoc(close, -1))
                /\ ILocInRange(close, -2) /\ CanFloat(ILoc(close, -2))
             THEN Metric(name, Fmt2(ILoc(close, -1)),
                         Fmt2(FSub(ILoc(close, -1), ILoc(close, -2))))
             ELSE NA

\* lines 59-76: cols = st.columns(len(tickers)); item i of macro_data
\* writes into cols[i]
KeyMetricsRow ==
    /\ pc = "fetched"
    /\ slots' = [p \in 1..Len(tickers) |->
                    IF p <= Len(macro_data)
                    THEN MetricSlot(macro_data[p].name, macro_data[p].df)
                    ELSE Blank]
    /\ rendered' = Append(rendered, "metrics")
    /\ pc' = "metrics"
    /\ UNCHANGED << tickers, provider, yf, k, data, macro_data, traces, yield_panel >>
    /\ UNCHANGED normVars

\* lines 93-96
Traces(selected, md) ==
    LET shown == SelectSeq(selected, LAMBDA m : DictHas(md, m))
    IN  [j \in 1..Len(shown) |->
            [name |-> shown[j], y |-> GetColumn(DictGet(md, shown[j]), "Pct_Change")]]

\* lines 83-105
TrendAnalysis ==
    /\ pc = "metrics"
    /\ \E selected \in Selections(tickers) :
          IF Len(selected) > 0
          THEN /\ traces' = Traces(selected, macro_data)
               /\ rendered' = Append(rendered, "trend_chart")
          ELSE UNCHANGED << traces, rendered >>
    /\ pc' = "trend"
    /\ UNCHANGED << tickers, provider, yf, k, data, macro_data, slots, yield_panel >>
    /\ UNCHANGED normVars

\* lines 107-133
YieldCurveProxy ==
    /\ pc = "trend"
    /\ IF DictHas(macro_data, YieldName)
       THEN /\ yield_panel' = [kind |-> "chart",
                               y |-> GetColumn(DictGet(macro_data, YieldName), "Close")]
            /\ rendered' = Append(rendered, "yield_chart")
       ELSE /\ yield_panel' = [kind |-> "unavailable", y |-> <<>>]
            /\ UNCHANGED rendered
    /\ pc' = "yield"
    /\ UNCHANGED << tickers, provider, yf, k, data, macro_data, slots, traces >>
    /\ UNCHANGED normVars

\* lines 135-145
InterpretationGuide ==
    /\ pc = "yield"
    /\ rendered' = Append(rendered, "guide")
    /\ pc' = "done"
    /\ UNCHANGED << tickers, provider, yf, k, data, macro_data, slots, traces,
                    yield_panel >>
    /\ UNCHANGED normVars

Next ==
    \/ GetDataIter
    \/ GetDataReturn
    \/ FetchFailed
    \/ KeyMetricsRow
    \/ TrendAnalysis
    \/ YieldCurveProxy
    \/ InterpretationGuide

Spec == Init /\ [][Next]_vars

(***************************************************************************)
(* The loop body as a function of one provider response: a second          *)
(* specification that draws a price history and two yfinance versions and  *)
(* runs lines 33-48 on the history under each version.                     *)
(***************************************************************************)
NormCells == {F(0), F(90), F(100), F(110), Obj}
RawSeries == UNION {[1..m -> NormCells] : m \in 0..MaxRows}

InitNorm ==
    /\ raw \in RawSeries
    /\ verA \in Versions
    /\ verB \in Versions
    /\ outA = NoOutcome /\ outB = NoOutcome /\ applied = FALSE
    /\ tickers = [j \in 1..N |-> AllTickers[j]]
    /\ provider = [s \in Symbols |-> [ok |-> FALSE, close |-> <<>>]]
    /\ yf = "new"
    /\ pc = "idle"
    /\ k = 0
    /\ data = <<>>
    /\ macro_data = <<>>
    /\ slots = [p \in 1..N |-> Blank]
    /\ traces = <<>>
    /\ yield_panel = NoPanel
    /\ rendered = <<>>

NormalizeBoth ==
    /\ ~applied
    /\ outA' = LoopBody("^GSPC", [ok |-> TRUE, close |-> raw], verA)
    /\ outB' = LoopBody("^GSPC", [ok |-> TRUE, close |-> raw], verB)
    /\ applied' = TRUE
    /\ UNCHANGED << raw, verA, verB >>
    /\ UNCHANGED scriptVars

NextNorm == NormalizeBoth

SpecNorm == InitNorm /\ [][NextNorm]_vars

(***************************************************************************)
(* Vocabulary of the properties.                                           *)
(***************************************************************************)
ReturnedPcs == {"fetched", "metrics", "trend", "yield", "done"}
MetricsPcs == {"metrics", "trend", "yield", "done"}
FailedPcs == {"raised", "stopped"}

Resp(e) == provider[e.symbol]
AllNumeric(close) == \A r \in 1..Len(close) : close[r].tag = "num"
IsEmptyResp(r) == r.ok /\ Len(r.close) = 0

\* the fetch of the instrument succeeds and its closes normalise: a
\* non-empty, all-numeric history whose first close is not 0
OwnSuccess(e) ==
    /\ Resp(e).ok
    /\ Len(Resp(e).close) > 0
    /\ AllNumeric(Resp(e).close)
    /\ Resp(e).close[1].n # 0

PctOf(df) == GetColumn(df, "Pct_Change")

(***************************************************************************)
(* Properties.                                                             *)
(***************************************************************************)

\* C1 (batch isolation): once the batch has ended, by returning or by
\* raising, every instrument whose own fetch and normalisation succeed has
\* its normalised series in the batch result, whatever happened to the
\* other instruments.
C1_BatchIsolation ==
    pc # "get_data" =>
        \A e \in Entries :
            OwnSuccess(e) =>
                /\ DictHas(macro_data, e.name)
                /\ NRows(DictGet(macro_data, e.name)) = Len(Resp(e).close)

\* C2 (baseline zero): after get_data has returned, no series whose first
\* close is 0 is in the batch result as a normalised series, and no series
\* of the result holds a NaN or infinite pct_change.
C2_ZeroBaselineIsFailure ==
    pc \in ReturnedPcs =>
        \A j \in 1..Len(macro_data) :
            /\ GetColumn(macro_data[j].df, "Close")[1].n # 0
            /\ \A r \in 1..NRows(macro_data[j].df) :
                  IsFinite(PctOf(macro_data[j].df)[r])

C4_MetricOrNA ==
    pc \in MetricsPcs =>
        \A p \in 1..Len(tickers) :
            LET c == Resp(tickers[p]).close
            IN  IF Len(c) < 2 \/ ~CanFloat(c[Len(c)]) \/ ~CanFloat(c[Len(c) - 1])
                THEN slots[p] = NA
                ELSE slots[p] = Metric(tickers[p].name, Fmt2(c[Len(c)]),
                                       Fmt2(FSub(c[Len(c)], c[Len(c) - 1])))

\* C5 (per-slot rendering): once the metrics row is rendered, no column is
\* blank, and a column that shows a metric shows the metric of the
\* instrument at its own catalog position.
C5_EverySlotItsOwn ==
    pc \in MetricsPcs =>
        \A p \in 1..Len(tickers) :
            /\ slots[p].kind # "blank"
            /\ slots[p].kind = "metric" => slots[p].label = tickers[p].name

\* C6 (output guarantee): after get_data has returned, every instrument
\* with a non-empty history has an entry with as many rows as its input and
\* a finite pct_change in every row (get_data has no failure marker, so
\* this is the only outcome left).
C6_SeriesOrFailure ==
    pc \in ReturnedPcs =>
        \A e \in Entries :
            Len(Resp(e).close) > 0 =>
            /\ DictHas(macro_data, e.name)
            /\ NRows(DictGet(macro_data, e.name)) = Len(Resp(e).close)
            /\ \A r \in 1..Len(Resp(e).close) :
                  IsFinite(PctOf(DictGet(macro_data, e.name))[r])

\* C7 (normalisation formula): for a non-empty all-numeric history whose
\* first close is not 0, the loop body stores a series with one pct_change
\* per row, pct_change[t] * close[0] = (close[t] - close[0]) * 100 for every
\* row t, pct_change[0] = 0, and closes 100, 110, 90 give 0, 10, -10.
C7_PctChangeFormula ==
    (applied /\ Len(raw) > 0 /\ AllNumeric(raw) /\ raw[1].n # 0) =>
        /\ outA.kind = "store"
        /\ Len(PctOf(outA.df)) = Len(raw)
        /\ \A t \in 1..Len(raw) :
              LET pct == PctOf(outA.df)[t]
              IN  /\ pct.tag = "num"
                  /\ pct.d > 0
                  /\ pct.n * raw[1].n = (raw[t].n - raw[1].n) * 100 * pct.d
        /\ PctOf(outA.df)[1] = F(0)
        /\ raw = <<F(100), F(110), F(90)>> => PctOf(outA.df) = <<F(0), F(10), F(-10)>>

\* C7 witness: the loop body has stored the series of closes 100, 110, 90.
C7_Witness ==
    /\ applied
    /\ raw = <<F(100), F(110), F(90)>>
    /\ outA.kind = "store"

\* C8 (shape tolerance): the same closes fetched under any two yfinance
\* versions (flat columns from the primary call, flat or two-level columns
\* from the TypeError fallback) give the same outcome and the same
\* pct_change.
C8_ShapeTolerance ==
    applied =>
        /\ outA.kind = outB.kind
        /\ outA.kind = "store" => PctOf(outA.df) = PctOf(outB.df)

\* C8 witness: a history of at least two rows stored once from the flat
\* answer of the primary call and once from the two-level answer of the
\* fallback.
C8_Witness ==
    /\ applied
    /\ verA = "new" /\ verB = "old_multi"
    /\ Len(raw) >= 2
    /\ raw[1].n # 0
    /\ outA.kind = "store" /\ outB.kind = "store"

C10_HardFailOnlyOnOutage ==
    /\ pc \in FailedPcs => \A e \in Entries : ~Resp(e).ok
    /\ \A j \in 1..Len(rendered) : rendered[j] = "error" => j = Len(rendered)

\* The half of C10 that the script keeps: an error message is emitted only
\* by the except handler, once, nothing is rendered after it, and the run
\* is then stopped.
ErrorEndsRun ==
    /\ \A j \in 1..Len(rendered) : rendered[j] = "error" => j = Len(rendered)
    /\ (Len(rendered) > 0 /\ rendered[Len(rendered)] = "error") <=> pc = "stopped"

=============================================================================
